---------------------------- MODULE Spec2Model ----------------------------
(***************************************************************************)
(* Tic-tac-toe: the board/game-state model (Game) and the alpha-beta       *)
(* minimax engine (Computer) of src/src/game.rs, and the application of    *)
(* src/src/main.rs: its own copy of the engine and App::update.            *)
(***************************************************************************)
EXTENDS Integers, Sequences, FiniteSets

VARIABLES
    board,   \* Game.board : [[Entity; 3]; 3], indexed board[x][y], x, y in 0..2
    state,   \* Game.state : GameState
    call,    \* the last call made on the Game: its name and arguments
    input,   \* the board snapshot handed to the last best_play call
    output,  \* the coordinate that best_play call returned
    scratch, \* best_play's own copy of the snapshot as it was when the call returned
    ret,     \* the <<score, depth>> the last direct minimax call returned
    clicked, \* App: the game's phase right after the update made for the last UserClicked
    ia       \* App.ia : Computer (main.rs), its state and entity fields

vars == <<board, state, call, input, output, scratch, ret, clicked, ia>>

\* the variables that only the engine's own specifications and the App write
engine_vars == <<scratch, ret>>
app_vars == <<clicked, ia>>

---------------------------------------------------------------------------
(* Entity and GameState *)

Empty == "Empty"
Computer == "Computer"
Human == "Human"
Entity == {Empty, Computer, Human}

\* variant: the complement of a player is the player itself
Entity_not_same(e) == e

\* impl Not for Entity
Entity_not(e) ==
    CASE e = Empty -> Empty
      [] e = Computer -> Human
      [] e = Human -> Computer

Ready == <<"Ready">>
Playing(e) == <<"Playing", e>>
Repeat(e) == <<"Repeat", e>>
Win(e) == <<"Win", e>>
Draw == <<"Draw">>
GameState ==
    {Ready, Draw} \cup {Playing(e) : e \in Entity} \cup {Repeat(e) : e \in Entity}
        \cup {Win(e) : e \in Entity}

\* the board is a 3 x 3 array; Idx is the index range 0..2 of each dimension
Idx == {0, 1, 2}

\* Board::default(): every cell is Entity::default() = Empty
DefaultBoard == [x \in Idx |-> [y \in Idx |-> Empty]]

\* Game::default()
DefaultGame == [board |-> DefaultBoard, state |-> Ready]

\* board.iter().flatten().all(|e| *e != Entity::Empty)
all_occupied(b) == \A x \in Idx : \A y \in Idx : b[x][y] # Empty

---------------------------------------------------------------------------
(* impl Game *)

\* variant: every position is taken as valid, occupied or not
is_valid_position_always(g, x, y) == TRUE

is_valid_position(g, x, y) == g.board[x][y] = Empty

\* variant: the mark is written with the indices swapped
update_board_transposed(g, entity, x, y) == [g EXCEPT !.board[y][x] = entity]

update_board(g, entity, x, y) == [g EXCEPT !.board[x][y] = entity]

set_state(g, s) == [g EXCEPT !.state = s]

\* game.rs: start(&mut self) sets Playing(Human), whatever the state was
start(g) == set_state(g, Playing(Human))

\* main.rs: start(&mut self, entity) sets Playing(entity), whatever the state was
start_entity(g, entity) == set_state(g, Playing(entity))

\* variant: a line counts as soon as its three cells are occupied
Game_is_winner_occupied(g, entity, x, y) ==
    \/ (\A i \in Idx : g.board[x][i] # Empty) \/ (\A i \in Idx : g.board[i][y] # Empty)
    \/ (x = y /\ \A i \in Idx : g.board[i][i] # Empty)
    \/ (x + y = 2 /\ \A i \in Idx : g.board[i][2 - i] # Empty)

\* variant: the anti-diagonal is not looked at
Game_is_winner_no_anti(g, entity, x, y) ==
    \/ (\A i \in Idx : g.board[x][i] = entity) \/ (\A i \in Idx : g.board[i][y] = entity)
    \/ (x = y /\ \A i \in Idx : g.board[i][i] = entity)

\* only the lines through the just-played cell (x, y) are looked at
Game_is_winner(g, entity, x, y) ==
    \/ (\A i \in Idx : g.board[x][i] = entity) \/ (\A i \in Idx : g.board[i][y] = entity)
    \/ (x = y /\ \A i \in Idx : g.board[i][i] = entity)
    \/ (x + y = 2 /\ \A i \in Idx : g.board[i][2 - i] = entity)

\* variant: the full board is tested before the winner
update_draw_first(g, x, y) ==
    IF g.state[1] \notin {"Playing", "Repeat"}
    THEN g
    ELSE LET entity == g.state[2]
             placed == update_board(g, entity, x, y)
         IN  IF ~is_valid_position(g, x, y)
             THEN set_state(g, Repeat(entity))
             ELSE IF all_occupied(placed.board)
             THEN set_state(placed, Draw)
             ELSE IF Game_is_winner(placed, entity, x, y)
             THEN set_state(placed, Win(entity))
             ELSE set_state(placed, Playing(Entity_not(entity)))

\* variant: a rejected move hands the turn to the other player
update_repeat_flips(g, x, y) ==
    IF g.state[1] \notin {"Playing", "Repeat"}
    THEN g
    ELSE LET entity == g.state[2]
             placed == update_board(g, entity, x, y)
         IN  IF ~is_valid_position(g, x, y)
             THEN set_state(g, Repeat(Entity_not(entity)))
             ELSE IF Game_is_winner(placed, entity, x, y)
             THEN set_state(placed, Win(entity))
             ELSE IF all_occupied(placed.board)
             THEN set_state(placed, Draw)
             ELSE set_state(placed, Playing(Entity_not(entity)))

\* variant: the match also takes the entity of Win(s), so a won game plays on
update_after_win(g, x, y) ==
    IF g.state[1] \notin {"Playing", "Repeat", "Win"}
    THEN g
    ELSE LET entity == g.state[2]
             placed == update_board(g, entity, x, y)
         IN  IF ~is_valid_position(g, x, y)
             THEN set_state(g, Repeat(entity))
             ELSE IF Game_is_winner(placed, entity, x, y)
             THEN set_state(placed, Win(entity))
             ELSE IF all_occupied(placed.board)
             THEN set_state(placed, Draw)
             ELSE set_state(placed, Playing(Entity_not(entity)))

update(g, x, y) ==
    IF g.state[1] \notin {"Playing", "Repeat"}
    THEN g
    ELSE LET entity == g.state[2]
             placed == update_board(g, entity, x, y)
         IN  IF ~is_valid_position(g, x, y)
             THEN set_state(g, Repeat(entity))
             ELSE IF Game_is_winner(placed, entity, x, y)
             THEN set_state(placed, Win(entity))
             ELSE IF all_occupied(placed.board)
             THEN set_state(placed, Draw)
             ELSE set_state(placed, Playing(Entity_not(entity)))

\* impl GameState
is_finished(s) == s = Draw \/ s[1] = "Win"

is_playable(s) == s[1] \in {"Playing", "Repeat"} \/ s = Ready

---------------------------------------------------------------------------
(* impl Computer *)

I32_MAX == 2147483647
I32_MIN == -2147483647 - 1

set_move(b, entity, x, y) == [b EXCEPT ![x][y] = entity]

undo_move(b, x, y) == [b EXCEPT ![x][y] = Empty]

Computer_is_winner(entity, b) ==
    \/ \E i \in Idx : (\A j \in Idx : b[i][j] = entity) \/ (\A j \in Idx : b[j][i] = entity)
    \/ (\A i \in Idx : b[i][i] = entity)
    \/ (\A i \in Idx : b[i][2 - i] = entity)

\* the nine coordinates in the order the two nested loops of actions visit them
ScanOrder == [k \in 1..9 |-> <<(k - 1) \div 3, (k - 1) % 3>>]

actions(b) == SelectSeq(ScanOrder, LAMBDA p : b[p[1]][p[2]] = Empty)

\* variant: a Human line is not scored
evaluate_no_loss(b) == IF Computer_is_winner(Computer, b) THEN 1 ELSE 0

evaluate(b) ==
    IF Computer_is_winner(Computer, b) THEN 1
    ELSE IF Computer_is_winner(Human, b) THEN -1
    ELSE 0

\* func: max at a Computer node, min otherwise
func(player, a, b) ==
    IF player = Computer THEN (IF a >= b THEN a ELSE b) ELSE (IF a <= b THEN a ELSE b)

RECURSIVE minimax(_, _, _, _, _)
RECURSIVE minimax_loop(_, _, _, _, _, _, _, _)

\* the for loop of minimax from its i-th action on, with the loop's running
\* m, alpha, beta and depth; returns <<score, depth>>
minimax_loop(b, player, acts, i, m, alpha, beta, depth) ==
    IF i > Len(acts)
    THEN <<m, depth>>
    ELSE LET row == acts[i][1]
             col == acts[i][2]
             r == minimax(set_move(b, player, row, col), Entity_not(player),
                          alpha, beta, depth + 1)
             m2 == func(player, m, r[1])
             restored == undo_move(set_move(b, player, row, col), row, col)
             alpha2 == IF player = Computer THEN func(player, alpha, m2) ELSE alpha
             beta2 == IF player = Computer THEN beta ELSE func(player, beta, m2)
         IN  IF beta2 <= alpha2
             THEN <<m2, r[2]>>
             ELSE minimax_loop(restored, player, acts, i + 1, m2, alpha2, beta2, r[2])

\* variant: the finished test leaves out the full board (as main.rs has it)
minimax_no_full_check(b, player, alpha, beta, depth) ==
    IF \/ Computer_is_winner(player, b)
       \/ Computer_is_winner(Entity_not(player), b)
    THEN <<evaluate(b), depth>>
    ELSE minimax_loop(b, player, actions(b), 1,
                      IF player = Computer THEN I32_MIN ELSE I32_MAX,
                      alpha, beta, depth)

minimax(b, player, alpha, beta, depth) ==
    IF \/ Computer_is_winner(player, b)
       \/ Computer_is_winner(Entity_not(player), b)
       \/ all_occupied(b)
    THEN <<evaluate(b), depth>>
    ELSE minimax_loop(b, player, actions(b), 1,
                      IF player = Computer THEN I32_MIN ELSE I32_MAX,
                      alpha, beta, depth)

\* the score best_play gets for the trial placement at (row, col)
trial_score(b, row, col) ==
    minimax(set_move(b, Computer, row, col), Human, I32_MIN, I32_MAX, 0)[1]

\* the depth minimax returns with that score; best_play drops it (let (score, _))
trial_depth(b, row, col) ==
    minimax(set_move(b, Computer, row, col), Human, I32_MIN, I32_MAX, 0)[2]

RECURSIVE best_play_loop(_, _, _, _, _, _)
\* the for loop of best_play from its i-th action on; b is the scratch board
\* (mut board) and clean tells that every set_move so far hit an Empty cell.
\* Returns best_move with the scratch board as the loop leaves it.
best_play_loop(b, acts, i, best_score, best_move, clean) ==
    IF i > Len(acts)
    THEN [move |-> best_move, board |-> b, clean |-> clean]
    ELSE LET row == acts[i][1]
             col == acts[i][2]
         IN  IF b[row][col] = Empty
             THEN LET score == trial_score(b, row, col)
                      restored == undo_move(set_move(b, Computer, row, col), row, col)
                  IN  IF score > best_score
                      THEN best_play_loop(restored, acts, i + 1, score, <<row, col>>,
                                          clean /\ b[row][col] = Empty)
                      ELSE best_play_loop(restored, acts, i + 1, best_score, best_move,
                                          clean /\ b[row][col] = Empty)
             ELSE best_play_loop(b, acts, i + 1, best_score, best_move, clean)

\* variant: the coordinate is returned with its components swapped
best_play_run_swapped(b) ==
    LET run == best_play_loop(b, actions(b), 1, I32_MIN, <<0, 0>>, TRUE)
    IN  [run EXCEPT !.move = <<run.move[2], run.move[1]>>]

\* best_play with its scratch board: [move, board, clean]
best_play_run(b) == best_play_loop(b, actions(b), 1, I32_MIN, <<0, 0>>, TRUE)

\* what best_play returns
best_play(b) == best_play_run(b).move

---------------------------------------------------------------------------
(* impl Computer of main.rs: its minimax has no full-board test and feeds  *)
(* alpha and beta with the child's value; its best_play swaps the indices  *)
(* of each action and breaks score ties on the returned depth.             *)

RECURSIVE main_minimax(_, _, _, _, _)
RECURSIVE main_minimax_loop(_, _, _, _, _, _, _, _)

\* the for loop of main.rs minimax from its i-th action on
main_minimax_loop(b, player, acts, i, score, alpha, beta, depth) ==
    IF i > Len(acts)
    THEN <<score, depth>>
    ELSE LET row == acts[i][1]
             col == acts[i][2]
             r == main_minimax(set_move(b, player, row, col), Entity_not(player),
                               alpha, beta, depth + 1)
             score2 == func(player, score, r[1])
             restored == undo_move(set_move(b, player, row, col), row, col)
             alpha2 == IF player = Computer THEN func(player, alpha, r[1]) ELSE alpha
             beta2 == IF player = Computer THEN beta ELSE func(player, beta, r[1])
         IN  IF beta2 <= alpha2
             THEN <<score2, r[2]>>
             ELSE main_minimax_loop(restored, player, acts, i + 1, score2, alpha2, beta2, r[2])

main_minimax(b, player, alpha, beta, depth) ==
    IF Computer_is_winner(player, b) \/ Computer_is_winner(Entity_not(player), b)
    THEN <<evaluate(b), depth>>
    ELSE main_minimax_loop(b, player, actions(b), 1,
                           IF player = Computer THEN I32_MIN ELSE I32_MAX,
                           alpha, beta, depth)

RECURSIVE main_best_play_loop(_, _, _, _, _, _, _)
\* the for loop of main.rs best_play from its i-th action on; b is the scratch
\* board, written at (col, row) for the action (row, col)
main_best_play_loop(b, acts, i, score, depth, result, clean) ==
    IF i > Len(acts)
    THEN [move |-> result, board |-> b, clean |-> clean]
    ELSE LET row == acts[i][1]
             col == acts[i][2]
             placed == set_move(b, Computer, col, row)
             r == main_minimax(placed, Human, I32_MIN, I32_MAX, 0)
             undone == undo_move(placed, col, row)
             ok == clean /\ b[col][row] = Empty
         IN  IF r[1] > score \/ (r[1] = score /\ r[2] < depth)
             THEN main_best_play_loop(undone, acts, i + 1, r[1], r[2], <<col, row>>, ok)
             ELSE main_best_play_loop(undone, acts, i + 1, score, depth, result, ok)

\* main.rs best_play with its scratch board: [move, board, clean]
main_best_play_run(b) ==
    main_best_play_loop(b, actions(b), 1, I32_MIN, I32_MAX, <<0, 0>>, TRUE)

\* what main.rs best_play returns
main_best_play(b) == main_best_play_run(b).move

\* main.rs: Computer::start
Computer_start(c, entity) == [c EXCEPT !.state = Playing(entity), !.entity = entity]

---------------------------------------------------------------------------
(* The Game driven by arbitrary calls of start() and update(x, y) *)

Game == [board |-> board, state |-> state]

NoCall == <<"none">>
NoMove == <<"none">>
NoRet == <<"none">>
NoScratch == [board |-> DefaultBoard, clean |-> TRUE]

\* main.rs: Computer::default(); best_play reads none of its fields
DefaultComputer == [board |-> DefaultBoard, state |-> Ready, entity |-> Empty]

Init ==
    /\ board = DefaultGame.board
    /\ state = DefaultGame.state
    /\ call = NoCall
    /\ input = DefaultBoard
    /\ output = NoMove
    /\ scratch = NoScratch
    /\ ret = NoRet
    /\ clicked = NoCall
    /\ ia = DefaultComputer

Start ==
    /\ board' = start(Game).board
    /\ state' = start(Game).state
    /\ call' = <<"start">>
    /\ UNCHANGED <<input, output, engine_vars, app_vars>>

Update(x, y) ==
    /\ board' = update(Game, x, y).board
    /\ state' = update(Game, x, y).state
    /\ call' = <<"update", x, y>>
    /\ UNCHANGED <<input, output, engine_vars, app_vars>>

Next ==
    \/ Start
    \/ \E x \in Idx, y \in Idx : Update(x, y)

Spec == Init /\ [][Next]_vars

---------------------------------------------------------------------------
(* One session: a single start() from Ready, then update(x, y) calls *)

SessionStart ==
    /\ state = Ready
    /\ Start

NextSession ==
    \/ SessionStart
    \/ \E x \in Idx, y \in Idx : Update(x, y)

SpecSession == Init /\ [][NextSession]_vars

\* an update(x, y) call that the game accepts: the phase is Playing or Repeat
\* and the player to move targets an Empty cell
AcceptedMove ==
    \E x \in Idx, y \in Idx :
        /\ state[1] \in {"Playing", "Repeat"}
        /\ is_valid_position(Game, x, y)
        /\ Update(x, y)

\* the session whose player to move eventually targets an Empty cell: rejected
\* attempts, and no call at all, do not go on forever while a move is possible
SpecSessionFair == Init /\ [][NextSession]_vars /\ WF_vars(AcceptedMove)

---------------------------------------------------------------------------
(* A game between a human, who may take any Empty cell, and the engine,   *)
(* whose every move is the coordinate best_play returns.  Either side may *)
(* be the first mover.                                                     *)

PlayStartHuman ==
    /\ state = Ready
    /\ board' = start(Game).board
    /\ state' = start(Game).state
    /\ call' = <<"start">>
    /\ UNCHANGED <<input, output, engine_vars, app_vars>>

PlayStartComputer ==
    /\ state = Ready
    /\ board' = start_entity(Game, Computer).board
    /\ state' = start_entity(Game, Computer).state
    /\ call' = <<"start">>
    /\ UNCHANGED <<input, output, engine_vars, app_vars>>

HumanMove(x, y) ==
    /\ state = Playing(Human)
    /\ board[x][y] = Empty
    /\ board' = update(Game, x, y).board
    /\ state' = update(Game, x, y).state
    /\ call' = <<"update", x, y>>
    /\ UNCHANGED <<input, output, engine_vars, app_vars>>

ComputerMove ==
    /\ state = Playing(Computer)
    /\ \E run \in {best_play_run(board)} :
           /\ input' = board
           /\ output' = run.move
           /\ scratch' = [board |-> run.board, clean |-> run.clean]
           /\ board' = update(Game, run.move[1], run.move[2]).board
           /\ state' = update(Game, run.move[1], run.move[2]).state
           /\ call' = <<"update", run.move[1], run.move[2]>>
    /\ UNCHANGED <<ret, app_vars>>

NextPlay ==
    \/ PlayStartHuman
    \/ PlayStartComputer
    \/ \E x \in Idx, y \in Idx : HumanMove(x, y)
    \/ ComputerMove

SpecPlay == Init /\ [][NextPlay]_vars

---------------------------------------------------------------------------
(* The engine on its own: best_play applied to a board snapshot drawn     *)
(* from every 3 x 3 board with at most MaxEmpty Empty cells.               *)

MaxEmpty == 6

EmptyCells(b) == {p \in Idx \X Idx : b[p[1]][p[2]] = Empty}

InputBoards == {b \in [Idx -> [Idx -> Entity]] : Cardinality(EmptyCells(b)) <= MaxEmpty}

InitEngine ==
    /\ board = DefaultGame.board
    /\ state = DefaultGame.state
    /\ call = NoCall
    /\ input \in InputBoards
    /\ output = NoMove
    /\ scratch = NoScratch
    /\ ret = NoRet
    /\ clicked = NoCall
    /\ ia = DefaultComputer

BestPlay ==
    /\ output = NoMove
    /\ \E run \in {best_play_run(input)} :
           /\ output' = run.move
           /\ scratch' = [board |-> run.board, clean |-> run.clean]
    /\ UNCHANGED <<board, state, call, input, ret, app_vars>>

NextEngine == BestPlay

SpecEngine == InitEngine /\ [][NextEngine]_vars

---------------------------------------------------------------------------
(* main.rs: App::update, one action per message the view can send.  A     *)
(* cell button sends UserClicked only while the phase is Playing, Repeat   *)
(* or Ready; ComputerClicked is sent by the UserClicked handler alone.     *)

\* the game after the handler's opening lines: started when still Ready
AppStarted == IF state = Ready THEN start_entity(Game, Computer) ELSE Game

AppIaStarted == IF state = Ready THEN Computer_start(ia, Human) ELSE ia

UserClicked(x, y) ==
    /\ state[1] \in {"Playing", "Repeat", "Ready"}
    /\ \E g1 \in {update(AppStarted, x, y)} :
          /\ clicked' = g1.state
          /\ IF g1.state[1] = "Playing"
             THEN \E run \in {main_best_play_run(g1.board)} :
                     \* ComputerClicked(ia_x, ia_y)
                     /\ input' = g1.board
                     /\ output' = run.move
                     /\ scratch' = [board |-> run.board, clean |-> run.clean]
                     /\ board' = update(g1, run.move[1], run.move[2]).board
                     /\ state' = update(g1, run.move[1], run.move[2]).state
             ELSE /\ board' = g1.board
                  /\ state' = g1.state
                  /\ output' = NoMove
                  /\ UNCHANGED <<input, scratch>>
    /\ ia' = AppIaStarted
    /\ call' = <<"UserClicked", x, y>>
    /\ UNCHANGED ret

Reset ==
    /\ board' = DefaultGame.board
    /\ state' = DefaultGame.state
    /\ ia' = DefaultComputer
    /\ call' = <<"Reset">>
    /\ clicked' = NoCall
    /\ input' = DefaultBoard
    /\ output' = NoMove
    /\ scratch' = NoScratch
    /\ UNCHANGED ret

NextApp ==
    \/ \E x \in Idx, y \in Idx : UserClicked(x, y)
    \/ Reset

SpecApp == Init /\ [][NextApp]_vars

---------------------------------------------------------------------------
(* The engine of main.rs on its own, on the same snapshots as SpecEngine:   *)
(* best_play on the snapshot, then minimax on it for either player.        *)

MainMinimax(player) ==
    /\ output # NoMove
    /\ ret = NoRet
    /\ ret' = main_minimax(input, player, I32_MIN, I32_MAX, 0)
    /\ call' = <<"minimax", player>>
    /\ UNCHANGED <<board, state, input, output, scratch, app_vars>>

MainBestPlay ==
    /\ output = NoMove
    /\ \E run \in {main_best_play_run(input)} :
           /\ output' = run.move
           /\ scratch' = [board |-> run.board, clean |-> run.clean]
    /\ UNCHANGED <<board, state, call, input, ret, app_vars>>

NextEngineMain ==
    \/ \E player \in {Human, Computer} : MainMinimax(player)
    \/ MainBestPlay

SpecEngineMain == InitEngine /\ [][NextEngineMain]_vars

---------------------------------------------------------------------------
(* Vocabulary of the properties, stated on the board alone *)

Cells == Idx \X Idx
Players == {Human, Computer}

\* the eight lines of the board: three rows, three columns, two diagonals
Lines ==
    {{<<i, j>> : j \in Idx} : i \in Idx} \cup {{<<j, i>> : j \in Idx} : i \in Idx}
        \cup {{<<i, i>> : i \in Idx}, {<<i, 2 - i>> : i \in Idx}}

HasLine(b, e) == \E L \in Lines : \A p \in L : b[p[1]][p[2]] = e

\* placing e at (x, y) gave board b a complete line of e through (x, y)
Completes(b, e, x, y) == \E L \in Lines : <<x, y>> \in L /\ \A p \in L : b[p[1]][p[2]] = e

IsFull(b) == \A p \in Cells : b[p[1]][p[2]] # Empty

Marks(b, e) == Cardinality({p \in Cells : b[p[1]][p[2]] = e})

Opponent(p) == IF p = Human THEN Computer ELSE Human

Place(b, p, e) == [b EXCEPT ![p[1]][p[2]] = e]

\* the game-theoretic value of board b with player p to move, by exhaustive
\* minimax without pruning: +1 the Computer wins, -1 the Human wins, 0 draw
RECURSIVE Value(_, _)
Value(b, p) ==
    IF HasLine(b, Computer) THEN 1
    ELSE IF HasLine(b, Human) THEN -1
    ELSE IF IsFull(b) THEN 0
    ELSE LET vs == {Value(Place(b, c, p), Opponent(p)) : c \in EmptyCells(b)}
         IN  IF p = Computer
             THEN CHOOSE v \in vs : \A w \in vs : v >= w
             ELSE CHOOSE v \in vs : \A w \in vs : v <= w

NonTerminal(b) == ~HasLine(b, Computer) /\ ~HasLine(b, Human) /\ ~IsFull(b)

---------------------------------------------------------------------------
(* C1: in a game from the empty board where the engine plays best_play and *)
(* the human any Empty cell, with either side moving first, the phase is   *)
(* never Win(Human): a finished game is Win(Computer) or Draw.             *)
C1_EngineNeverLoses ==
    /\ state # Win(Human)
    /\ (state = Draw \/ state[1] = "Win") => state \in {Win(Computer), Draw}

\* a game the human opened, the engine answered in, and that ended in a Draw
C1_Witness ==
    /\ state = Draw
    /\ Marks(board, Human) = 5
    /\ output # NoMove

(* C2: for a board with at least one Empty cell, best_play returns a       *)
(* coordinate in [0,2] x [0,2] whose cell is Empty in the input board.     *)
C2_ReturnsEmptyCell ==
    (output # NoMove /\ EmptyCells(input) # {}) =>
        /\ output \in Cells
        /\ input[output[1]][output[2]] = Empty

\* best_play answered on a board whose cell (0, 0), the initial best_move, is taken
C2_Witness ==
    /\ output # NoMove
    /\ input[0][0] # Empty
    /\ Cardinality(EmptyCells(input)) >= 3
    /\ input[output[1]][output[2]] = Empty

(* C3: on a non-terminal board, the score alpha-beta minimax gives each    *)
(* top-level action equals the exhaustive minimax value of that action,    *)
(* and the returned move attains the maximum of those values.              *)
C3_BestPlayOptimal ==
    (output # NoMove /\ NonTerminal(input)) =>
        /\ \A p \in EmptyCells(input) :
              trial_score(input, p[1], p[2]) = Value(Place(input, p, Computer), Human)
        /\ output \in EmptyCells(input)
        /\ LET best == Value(Place(input, output, Computer), Human)
           IN  \A p \in EmptyCells(input) : best >= Value(Place(input, p, Computer), Human)

\* best_play answered on a non-terminal board where the moves differ in value
\* and the first Empty cell in scan order is not a best one
C3_Witness ==
    /\ output # NoMove
    /\ NonTerminal(input)
    /\ Cardinality(EmptyCells(input)) >= 4
    /\ output # actions(input)[1]
    /\ \E p \in EmptyCells(input) :
          Value(Place(input, p, Computer), Human)
              < Value(Place(input, output, Computer), Human)

(* C4: update(x, y) in Playing(p) or Repeat(p) on an Empty cell changes    *)
(* exactly that cell to p, and the new phase is Win(p) if the move         *)
(* completes a line of p, else Draw if no Empty cell remains, else         *)
(* Playing(complement(p)); filling the last cell with a line is a Win.     *)
C4_AcceptedMove ==
    [][\A x \in Idx, y \in Idx, p \in Players :
          (/\ call' = <<"update", x, y>>
           /\ state \in {Playing(p), Repeat(p)}
           /\ board[x][y] = Empty)
          => /\ board' = Place(board, <<x, y>>, p)
             /\ state' = IF Completes(board', p, x, y) THEN Win(p)
                         ELSE IF IsFull(board') THEN Draw
                         ELSE Playing(Opponent(p))]_vars

\* the move that filled the last Empty cell completed a line: Win, not Draw
C4_Witness ==
    /\ call[1] = "update"
    /\ IsFull(board)
    /\ Marks(board, Human) = 5
    /\ state = Win(Human)
    /\ board[call[2]][call[3]] = Human

(* C5: update(x, y) in Playing(p) or Repeat(p) on an occupied cell leaves  *)
(* the board unchanged and sets the phase to Repeat(p); and in Repeat(p)   *)
(* the next accepted mark is p's.                                          *)
C5_RejectedMove ==
    [][\A x \in Idx, y \in Idx, p \in Players :
          /\ (/\ call' = <<"update", x, y>>
              /\ state \in {Playing(p), Repeat(p)}
              /\ board[x][y] # Empty)
             => (board' = board /\ state' = Repeat(p))
          /\ (/\ call' = <<"update", x, y>>
              /\ state = Repeat(p)
              /\ board[x][y] = Empty)
             => board'[x][y] = p]_vars

\* the Computer's attempt on a cell the Human holds was rejected
C5_Witness ==
    /\ call[1] = "update"
    /\ state = Repeat(Computer)
    /\ board[call[2]][call[3]] = Human

(* C6: update(x, y) in Ready, Win(_) or Draw changes neither the board nor *)
(* the phase, for every (x, y): Win and Draw are terminal under update.    *)
C6_IgnoredMove ==
    [][\A x \in Idx, y \in Idx :
          (/\ call' = <<"update", x, y>>
           /\ (state = Ready \/ state = Draw \/ state[1] = "Win"))
          => (board' = board /\ state' = state)]_vars

\* an update on an Empty cell was made after the game was won, and was ignored
C6_Witness ==
    /\ call[1] = "update"
    /\ state = Win(Human)
    /\ board[call[2]][call[3]] = Empty

(* C7: in every state reachable by start() and update() calls, phase       *)
(* Win(w) implies the board has a complete row, column or diagonal of w.   *)
C7_WinHasLine == state[1] = "Win" => HasLine(board, state[2])

\* the Computer won with its third mark
C7_Witness ==
    /\ state = Win(Computer)
    /\ Marks(board, Computer) = 3
    /\ call[1] = "update"

(* C8: in every state reachable by start() and update() calls, phase Draw  *)
(* implies the board has no Empty cell and no complete line of either      *)
(* player.                                                                 *)
C8_DrawFullNoLine ==
    state = Draw => (IsFull(board) /\ ~HasLine(board, Human) /\ ~HasLine(board, Computer))

(* C9: start() called in Ready sets Playing(first mover) over an empty     *)
(* board; called in any other phase it changes neither phase nor board.    *)
C9_StartOnlyFromReady ==
    [][call' = <<"start">> =>
          IF state = Ready
          THEN state' = Playing(Human) /\ board' = DefaultBoard
          ELSE state' = state /\ board' = board]_vars

(* C10: across every start and update step, no cell holding a mark changes *)
(* to Empty or to the other mark, and the number of occupied cells never   *)
(* decreases.                                                              *)
C10_MarksPersist ==
    [][/\ \A p \in Cells : board[p[1]][p[2]] # Empty => board'[p[1]][p[2]] = board[p[1]][p[2]]
       /\ Marks(board', Human) + Marks(board', Computer)
              >= Marks(board, Human) + Marks(board, Computer)]_vars

\* an update aimed at a cell holding the other player's mark left that mark
C10_Witness ==
    /\ call[1] = "update"
    /\ state = Repeat(Human)
    /\ board[call[2]][call[3]] = Computer
    /\ Marks(board, Human) + Marks(board, Computer) >= 3

(* C11: when the Computer is to move on a board with no completed line and *)
(* some Empty cell would complete a line of Computer marks, best_play      *)
(* returns a line-completing cell (applying it yields Win(Computer)).      *)
WinningCells(b, e) == {p \in EmptyCells(b) : Completes(Place(b, p, e), e, p[1], p[2])}

C11_TakesImmediateWin ==
    (/\ output # NoMove
     /\ ~HasLine(input, Computer) /\ ~HasLine(input, Human)
     /\ WinningCells(input, Computer) # {})
    => /\ output \in WinningCells(input, Computer)
       /\ update([board |-> input, state |-> Playing(Computer)],
                 output[1], output[2]).state = Win(Computer)

(* C12: when the Computer is to move, has no line-completing cell, and the *)
(* Human has exactly one Empty cell that would complete a Human line,      *)
(* best_play returns that blocking cell.                                   *)
C12_BlocksSingleThreat ==
    (/\ output # NoMove
     /\ ~HasLine(input, Computer) /\ ~HasLine(input, Human)
     /\ WinningCells(input, Computer) = {}
     /\ Cardinality(WinningCells(input, Human)) = 1)
    => /\ output \in WinningCells(input, Human)
       /\ update([board |-> input, state |-> Playing(Computer)],
                 output[1], output[2]).state # Win(Human)

(* C13: among the top-level actions with the best score, best_play returns *)
(* the one of shallowest depth, and among those of equal score and depth   *)
(* the first in row-major order.                                           *)
ScanIndex(p) == 3 * p[1] + p[2]

C13_DepthTieBreak ==
    (output # NoMove /\ NonTerminal(input)) =>
        /\ output \in EmptyCells(input)
        /\ \A p \in EmptyCells(input) :
              trial_score(input, p[1], p[2]) = trial_score(input, output[1], output[2])
              => \/ trial_depth(input, output[1], output[2]) < trial_depth(input, p[1], p[2])
                 \/ /\ trial_depth(input, output[1], output[2]) = trial_depth(input, p[1], p[2])
                    /\ ScanIndex(output) <= ScanIndex(p)

(* C14: in main.rs every score minimax returns is +1, -1 or 0, and on a    *)
(* full board with no completed line it returns 0, whichever player is to  *)
(* move.                                                                   *)
C14_MainScoreRange ==
    ret # NoRet =>
        /\ ret[1] \in {-1, 0, 1}
        /\ (IsFull(input) /\ ~HasLine(input, Human) /\ ~HasLine(input, Computer))
           => ret[1] = 0

(* C15: in both best_play implementations every trial placement writes to  *)
(* a cell that is Empty in the scratch board and is undone, so the scratch *)
(* board equals the input snapshot when best_play returns.                 *)
C15_ScratchRestored ==
    output # NoMove =>
        /\ scratch.clean
        /\ scratch.board = input
        /\ \A i \in 1..Len(actions(input)) :
              input[actions(input)[i][1]][actions(input)[i][2]] = Empty

(* C16: is_playable() is true in Playing(_) and Repeat(_) and false in     *)
(* Ready, Win(_) and Draw; an update made while Ready places no mark.      *)
C16_PlayableExactlyWhenAccepted ==
    [][/\ is_playable(state) <=> state[1] \in {"Playing", "Repeat"}
       /\ \A x \in Idx, y \in Idx :
             (call' = <<"update", x, y>> /\ state = Ready)
             => (board' = board /\ state' = Ready)]_vars

(* C17: in the App the update made for a UserClicked message never sets    *)
(* the phase to Win: the user's side never completes a line.               *)
C17_UserNeverWins == call[1] = "UserClicked" => clicked[1] # "Win"

(* C18: in the App every engine reply is an accepted move: the coordinate  *)
(* best_play returns is Empty in the game board, the phase after a         *)
(* UserClicked is never Repeat of the engine's entity, and the reply adds  *)
(* exactly the engine's mark.                                              *)
C18_ReplyAccepted ==
    (call[1] = "UserClicked" /\ output # NoMove) =>
        /\ input[output[1]][output[2]] = Empty
        /\ state # Repeat(clicked[2])
        /\ board = Place(input, output, clicked[2])

(* C19: in the App best_play is invoked only when the phase is             *)
(* Playing(Computer), the entity whose outcome best_play maximises.        *)
C19_InvokedOnComputerTurn ==
    (call[1] = "UserClicked" /\ output # NoMove) => clicked = Playing(Computer)

(* C20: in a session (one start() from Ready, then updates) phase          *)
(* Playing(_) or Repeat(_) implies the board has an Empty cell and no      *)
(* completed line of either player.                                        *)
C20_PlayableBoardOpen ==
    state[1] \in {"Playing", "Repeat"} =>
        /\ ~IsFull(board)
        /\ ~HasLine(board, Human)
        /\ ~HasLine(board, Computer)

\* eight marks on the board, no line, and still a turn to play
C20_Witness ==
    /\ state = Playing(Human)
    /\ Marks(board, Human) + Marks(board, Computer) = 8
    /\ call[1] = "update"

(* C21: in a session (one start() from Ready, then updates) the mark       *)
(* counts track the turn: in Playing(Human) or Repeat(Human) the board     *)
(* holds as many Human as Computer marks, in Playing(Computer) or          *)
(* Repeat(Computer) one more Human mark than Computer marks, and in every  *)
(* state the difference Human minus Computer is 0 or 1.                    *)
C21_MarksTrackTurn ==
    LET diff == Marks(board, Human) - Marks(board, Computer)
    IN  /\ state \in {Playing(Human), Repeat(Human)} => diff = 0
        /\ state \in {Playing(Computer), Repeat(Computer)} => diff = 1
        /\ diff \in {0, 1}

\* the Computer's attempt on an occupied cell was rejected late in the game:
\* four Human marks against three Computer marks, and the Computer to retry
C21_Witness ==
    /\ state = Repeat(Computer)
    /\ Marks(board, Human) = 4
    /\ Marks(board, Computer) = 3
    /\ call[1] = "update"

(* C22: in a session every accepted move removes exactly one Empty cell    *)
(* and no other call changes the board, so the nine Empty cells of the     *)
(* start allow at most 9 accepted moves; a finished game changes no more;  *)
(* and when the player to move eventually targets an Empty cell, every     *)
(* started game eventually reaches Win or Draw and stays there.            *)
C22_GameTerminates ==
    /\ [][IF /\ call'[1] = "update"
             /\ state[1] \in {"Playing", "Repeat"}
             /\ board[call'[2]][call'[3]] = Empty
          THEN /\ Marks(board, Empty) >= 1
               /\ Marks(board', Empty) = Marks(board, Empty) - 1
               /\ Marks(board', Empty) + Marks(board', Human)
                    + Marks(board', Computer) = 9
          ELSE board' = board]_vars
    /\ [][is_finished(state) => (state' = state /\ board' = board)]_vars
    /\ (state[1] \in {"Playing", "Repeat"}) ~> [](is_finished(state))

\* the ninth accepted move of a session: no Empty cell is left and the game
\* is finished in a Draw
C22_Witness ==
    /\ is_finished(state)
    /\ Marks(board, Empty) = 0
    /\ state = Draw
    /\ call[1] = "update"

===========================================================================
